---- MODULE Spec2Model ----
(***************************************************************************)
(* MAGI + SYBIL analysis engine (lib/ai-cores.ts, v2.0).                   *)
(*                                                                         *)
(* fullMAGISybilAnalysis fans out three generate -> validate -> retry      *)
(* pipelines (generateAndValidateCore), joins them with Promise.all,       *)
(* collects their errors, then runs the Sybil synthesis loop (parse,       *)
(* structural check, colour auto-correction, semantic validation, retry,   *)
(* fallback) and returns a MAGIResult.                                     *)
(*                                                                         *)
(* Every model, judge and synthesis call is an await: the code between two *)
(* awaits runs atomically on the event loop, so there is one action per    *)
(* settled call, and the outcome of the call is the action's input.        *)
(***************************************************************************)
EXTENDS Integers, Sequences, FiniteSets, TLC

VARIABLES
    core,        \* per pipeline: the locals of generateAndValidateCore and its return value
    genCalls,    \* per pipeline: generateFn calls started so far
    generated,   \* per pipeline: the attempt whose generateFn call resolved last; 0 if none has
    judgeCalls,  \* per running pipeline: validateCoreOutput calls started so far
    validation,  \* per pipeline: the judge's verdict on the current candidate, with its cause
    main,        \* fullMAGISybilAnalysis: position, sybilAttempt, sybilData, errors
    sybilCalls,  \* claude.messages.create calls started so far
    sybilJudgeCalls, \* validateSybilOutput calls started so far by the running synthesis loop
    sybilValidation, \* the synthesis judge's verdict on the current verdict, with its cause
    calls,       \* the network calls in flight: awaited ones and ones abandoned on timeout
    fallbackSybil, \* the module-level object FALLBACK_SYBIL: its fields as they are now
    otherCall    \* another call of fullMAGISybilAnalysis under way: its synthesis loop

vars == <<core, genCalls, generated, judgeCalls, validation, main, sybilCalls,
          sybilJudgeCalls, sybilValidation, calls, fallbackSybil, otherCall>>

----------------------------------------------------------------------------
(* Constants of the module *)

\* A ceiling of three retries.
OneMoreRetry == 2 + 1

MAX_RETRIES == 2

Cores == {"CASPER", "BALTHASAR", "MELCHIOR"}

\* Order of the array handed to Promise.all and of the error collection.
CoreOrder == <<"CASPER", "BALTHASAR", "MELCHIOR">>

----------------------------------------------------------------------------
(* Texts.  A text is identified by who produced it and on which attempt.   *)
(*   text    : a model answer that does not start with '['                 *)
(*   bracket : a model answer that starts with '[' (this includes the      *)
(*             '[No response from X]' placeholder of an empty completion)  *)
(*   offline : the '[NAME OFFLINE] - Core unavailable ...' text built in   *)
(*             the catch block of generateAndValidateCore                  *)
(*   empty   : ''                                                          *)

EmptyText == [kind |-> "empty", core |-> "-", n |-> 0]

ModelText(c, n) == [kind |-> "text", core |-> c, n |-> n]

BracketText(c, n) == [kind |-> "bracket", core |-> c, n |-> n]

OfflineText(c, n) == [kind |-> "offline", core |-> c, n |-> n]

\* lastOutput.startsWith('[')
StartsWithBracket(t) == t.kind \in {"bracket", "offline"}

\* `lastOutput || fallbackText` : '' is the only falsy string
OrElse(t, other) == IF t = EmptyText THEN other ELSE t

----------------------------------------------------------------------------
(* Error strings, identified by origin, kind and attempt count. *)

NoError == [who |-> "-", kind |-> "none", n |-> 0]

ErrorOf(who, kind, n) == [who |-> who, kind |-> kind, n |-> n]

----------------------------------------------------------------------------
(* withTimeout and the calls in flight.                                    *)
(*                                                                         *)
(* A call is identified by whose it is (a core, or SYBIL for the synthesis *)
(* loop), its kind ("gen", "synth" or "judge") and the attempt (1-based)   *)
(* it was issued on.  withTimeout races fn() against a timer: when the     *)
(* timer wins the awaiting code goes on, and fn() is left running          *)
(* (abandoned = TRUE) until the underlying call completes.  The function   *)
(* returns without waiting for it, so a call can outlive the request that  *)
(* issued it: `earlier` counts the requests started since (0 for a call of *)
(* the request under way).                                                 *)

Callers == Cores \cup {"SYBIL"}

AwaitedCall(who, kind, n) ==
    [who |-> who, kind |-> kind, n |-> n, abandoned |-> FALSE, earlier |-> 0]

\* fn() is called
Issue(cs, who, kind, n) == cs \cup {AwaitedCall(who, kind, n)}

\* fn() settles first: the awaited call of `who` is over
Completes(cs, who) == {x \in cs : x.who # who \/ x.abandoned}

\* the timer fires first: the awaited call of `who` stays in flight, unawaited
TimesOut(cs, who) ==
    {IF x.who = who /\ ~x.abandoned THEN [x EXCEPT !.abandoned = TRUE] ELSE x : x \in cs}

\* A race the awaiting code never leaves on timeout.
withTimeoutStillAwaiting(cs, who, outcome) ==
    IF outcome = "timeout" THEN cs ELSE Completes(cs, who)

\* Promise.race([fn(), timer]) settling with `outcome`
withTimeout(cs, who, outcome) ==
    IF outcome = "timeout" THEN TimesOut(cs, who) ELSE Completes(cs, who)

\* A settlement of fn() after the race was lost, taken for a fresh candidate.
LateSettlementValidated(s, x) == [s EXCEPT !.pc = "judge"]

\* fn() of an abandoned call x settles after the race is over: Promise.race
\* has settled already and nothing else holds the promise; s is the frame of
\* the caller.
LateSettlement(s, x) == s

Abandoned == {x \in calls : x.abandoned}

\* The calls left pending when the next request starts: each belongs to a
\* request one further back.
LeftPending(cs) == {[x EXCEPT !.earlier = @ + 1] : x \in {y \in cs : y.abandoned}}

\* The calls of `who` issued by the request under way.
CallsOf(who) == {x \in calls : x.who = who /\ x.earlier = 0}

----------------------------------------------------------------------------
(* The judge (validateCoreOutput, validateSybilOutput).                    *)
(*                                                                         *)
(* A judge call ends in one of:                                            *)
(*   timeout  : withTimeout rejects after VALIDATOR_TIMEOUT_MS             *)
(*   error    : the completion call rejects (transport, HTTP, auth)        *)
(*   nonjson  : extractJSON throws (JSON.parse fails on the reply text)    *)
(*   jsonnull : the reply is the JSON value null, so result.pass throws    *)
(*   object   : the reply parses to a value whose fields can be read       *)
(* For an object, `pass` is what the reply holds under "pass" and          *)
(* `feedback` tells whether "feedback" is a non-empty string, an empty     *)
(* string or not a string.                                                 *)

PassValues == {"true", "false", "missing", "null", "zero", "one", "emptystr", "str"}

FeedbackValues == {"sentence", "empty", "nonstring"}

JudgeFailures == {"timeout", "error", "nonjson", "jsonnull"}

JudgeReplies ==
    [kind : JudgeFailures, pass : {"missing"}, feedback : {"nonstring"}]
    \cup [kind : {"object"}, pass : PassValues, feedback : FeedbackValues]

\* JavaScript truthiness of the value under "pass": !!result.pass
Truthy(p) == p \in {"true", "one", "str"}

\* The feedback sentence of the judge's reply to attempt n is identified by n;
\* 0 is the empty string.
NoFeedback == 0

\* How the verdict came about: the judge call failed, the reply held a boolean
\* pass, or the reply held no boolean pass.
CauseOf(reply) ==
    IF reply.kind \in JudgeFailures THEN "failed"
    ELSE IF reply.pass \in {"true", "false"} THEN "boolean"
    ELSE "unusable"

\* The verdict a pipeline holds on its current candidate: `pass` of the
\* ValidationResult, and how it came about.
NoValidation == [pass |-> TRUE, cause |-> "none"]

Verdict(v, reply) == [pass |-> v.pass, cause |-> CauseOf(reply)]

\* typeof result.feedback === 'string' ? result.feedback : ''
FeedbackOf(reply, n) == IF reply.feedback = "sentence" THEN n ELSE NoFeedback

validateCoreOutputFailClosed(reply, n) ==
    IF reply.kind \in JudgeFailures
    THEN [pass |-> FALSE, feedback |-> NoFeedback]
    ELSE [pass |-> Truthy(reply.pass), feedback |-> FeedbackOf(reply, n)]

\* validateCoreOutput: the ValidationResult for the judge's reply to attempt n.
\* Every core name has a validator prompt, so the early return is not taken.
\* (`issues` only feeds the text of an error message and is left out.)
validateCoreOutput(reply, n) ==
    IF reply.kind \in JudgeFailures
    THEN \* catch: pass the output through
         [pass |-> TRUE, feedback |-> NoFeedback]
    ELSE [pass |-> Truthy(reply.pass), feedback |-> FeedbackOf(reply, n)]

validateSybilOutputFailClosed(reply, n) ==
    IF reply.kind \in JudgeFailures
    THEN [pass |-> FALSE, feedback |-> NoFeedback]
    ELSE [pass |-> Truthy(reply.pass), feedback |-> FeedbackOf(reply, n)]

\* validateSybilOutput: the same body with the synthesis rubric.
validateSybilOutput(reply, n) ==
    IF reply.kind \in JudgeFailures
    THEN [pass |-> TRUE, feedback |-> NoFeedback]
    ELSE [pass |-> Truthy(reply.pass), feedback |-> FeedbackOf(reply, n)]

----------------------------------------------------------------------------
(* generateAndValidateCore: one pipeline.                                  *)
(*                                                                         *)
(* s is the record of the pipeline's locals:                               *)
(*   pc       "gen"   a generateFn call of this attempt is awaited         *)
(*            "judge" a validateCoreOutput call of this attempt is awaited *)
(*            "done"  the function has returned `out`                      *)
(*            "threw" the returned promise rejected                        *)
(*   attempt, attempts, lastOutput, lastFeedback : as in the code          *)
(*   out      the returned { result, attempts, error }                     *)

NoReturn == [result |-> EmptyText, attempts |-> 0, error |-> NoError]

InitCore ==
    [pc |-> "gen", attempt |-> 0, attempts |-> 1,
     lastOutput |-> EmptyText, lastFeedback |-> NoFeedback, out |-> NoReturn]

\* return { result, attempts, error } ; the locals of the call end with it
Return(s, result, error) ==
    [InitCore EXCEPT !.pc = "done",
                     !.out = [result |-> result, attempts |-> s.attempts, error |-> error]]

\* A loop that counts the first attempt only: `attempts` is set before the loop.
NextAttemptUncounted(s, c) ==
    IF s.attempt + 1 <= MAX_RETRIES
    THEN [s EXCEPT !.pc = "gen", !.attempt = s.attempt + 1]
    ELSE Return(s, OrElse(s.lastOutput, OfflineText(c, 0)), ErrorOf(c, "exhausted", s.attempts))

\* attempt++ ; the loop condition attempt <= MAX_RETRIES ; attempts = attempt + 1
NextAttempt(s, c) ==
    IF s.attempt + 1 <= MAX_RETRIES
    THEN [s EXCEPT !.pc = "gen", !.attempt = s.attempt + 1, !.attempts = s.attempt + 2]
    ELSE \* safety fallback after the loop
         Return(s, OrElse(s.lastOutput, OfflineText(c, 0)), ErrorOf(c, "exhausted", s.attempts))

\* A pipeline that validates every text, offline markers included.
AfterGenerationNoOfflineCheck(s, c, text) ==
    [s EXCEPT !.lastOutput = text, !.pc = "judge"]

\* A pipeline that keeps its first candidate once it has one.
AfterGenerationKeepsFirst(s, c, text) ==
    LET s1 == [s EXCEPT !.lastOutput = OrElse(s.lastOutput, text)] IN
    IF StartsWithBracket(text)
    THEN Return(s1, text, ErrorOf(c, "offline_marker", s.attempts))
    ELSE [s1 EXCEPT !.pc = "judge"]

\* A pipeline that returns an offline marker without an error.
AfterGenerationSilentOffline(s, c, text) ==
    LET s1 == [s EXCEPT !.lastOutput = text] IN
    IF StartsWithBracket(text)
    THEN Return(s1, text, NoError)
    ELSE [s1 EXCEPT !.pc = "judge"]

\* The generation call resolved with `text`.
AfterGeneration(s, c, text) ==
    LET s1 == [s EXCEPT !.lastOutput = text] IN
    IF StartsWithBracket(text)
    THEN Return(s1, text, ErrorOf(c, "offline_marker", s.attempts))
    ELSE [s1 EXCEPT !.pc = "judge"]

\* A loop that gives up one attempt early.
AfterValidationOffByOne(s, c, v) ==
    IF v.pass
    THEN Return(s, s.lastOutput, NoError)
    ELSE LET s1 == [s EXCEPT !.lastFeedback = v.feedback] IN
         IF s.attempt + 1 = MAX_RETRIES
         THEN Return(s1, s1.lastOutput, ErrorOf(c, "used_after", s.attempts))
         ELSE NextAttempt(s1, c)

\* A loop that reports nothing when it gives up on a rejected candidate.
AfterValidationSilentCeiling(s, c, v) ==
    IF v.pass
    THEN Return(s, s.lastOutput, NoError)
    ELSE LET s1 == [s EXCEPT !.lastFeedback = v.feedback] IN
         IF s.attempt = MAX_RETRIES
         THEN Return(s1, s1.lastOutput, NoError)
         ELSE NextAttempt(s1, c)

\* The judge call resolved with validation v.
AfterValidation(s, c, v) ==
    IF v.pass
    THEN Return(s, s.lastOutput, NoError)
    ELSE LET s1 == [s EXCEPT !.lastFeedback = v.feedback] IN
         IF s.attempt = MAX_RETRIES
         THEN Return(s1, s1.lastOutput, ErrorOf(c, "used_after", s.attempts))
         ELSE NextAttempt(s1, c)

\* A catch block that gives up on the last attempt by rethrowing.
AfterGenerationFailureRethrow(s, c) ==
    IF s.attempt = MAX_RETRIES
    THEN [s EXCEPT !.pc = "threw"]
    ELSE NextAttempt(s, c)

\* A catch block that always builds the offline text on the last attempt.
AfterGenerationFailureOfflineOnly(s, c) ==
    IF s.attempt = MAX_RETRIES
    THEN Return(s, OfflineText(c, s.attempts), ErrorOf(c, "failed", s.attempts))
    ELSE NextAttempt(s, c)

\* A catch block that returns lastOutput as it is, without `|| '[NAME OFFLINE] ...'`.
AfterGenerationFailureNoPlaceholder(s, c) ==
    IF s.attempt = MAX_RETRIES
    THEN Return(s, s.lastOutput, ErrorOf(c, "failed", s.attempts))
    ELSE NextAttempt(s, c)

\* catch (err): the generation call rejected or timed out.
AfterGenerationFailure(s, c) ==
    IF s.attempt = MAX_RETRIES
    THEN Return(s, OrElse(s.lastOutput, OfflineText(c, s.attempts)),
                ErrorOf(c, "failed", s.attempts))
    ELSE NextAttempt(s, c)

\* generateFn(attempt > 0 ? lastFeedback : undefined): what the generation
\* call of the pipeline's current attempt is called with.
RetryFeedback(s) ==
    IF s.attempt > 0
    THEN [given |-> TRUE, feedback |-> s.lastFeedback]
    ELSE [given |-> FALSE, feedback |-> NoFeedback]

\* The rejection notice of a retry prompt, carrying the feedback sentence.
RejectionNotice(feedback) == [role |-> "user", content |-> "rejected", feedback |-> feedback]

\* The system prompt of the core and the full query.
BaseMessages ==
    <<[role |-> "system", content |-> "CORE_PROMPT", feedback |-> NoFeedback],
      [role |-> "user", content |-> "fullQuery", feedback |-> NoFeedback]>>

\* The messages generateFn sends: `if (retryFeedback) messages.push(...)`;
\* undefined and '' are both falsy.
CoreMessages(arg) ==
    IF arg.given /\ arg.feedback # NoFeedback
    THEN Append(BaseMessages, RejectionNotice(arg.feedback))
    ELSE BaseMessages

----------------------------------------------------------------------------
(* The synthesis verdict (SybilData).                                      *)
(*   src        "fallback": the fixed texts of FALLBACK_SYBIL;             *)
(*              "model": texts written by the synthesis model;             *)
(*              "null": the parsed JSON value was null                     *)
(*   coeffIsNumber : typeof safetyCoefficient === 'number'                 *)
(*   scenarios  : whether the field is an array, and its items             *)
(*   madeOn     : the synthesis attempt (1-based) whose reply was parsed    *)
(*                into this object; 0 for the fallback                     *)

Colors == {"green", "yellow", "orange", "red"}

FALLBACK_SYBIL ==
    [src |-> "fallback", coeffIsNumber |-> TRUE, safetyCoefficient |-> 50,
     escalationRisk24h |-> 50, psychoPassColor |-> "yellow",
     scenarios |-> [isArray |-> TRUE, items |-> <<>>], madeOn |-> 0]

\* What the synthesis model can be seen to emit.
CoeffValues == {24, 25, 49, 50, 62, 74, 75}

EscalationValues == {40}

\* The model's "scenarios": a list, or (for some answers) no list at all.
EmittedScenarios(coeff) ==
    IF coeff \in {25, 62, 74}
    THEN [isArray |-> FALSE, items |-> <<>>]
    ELSE [isArray |-> TRUE, items |-> <<"0-6h">>]

\* Numbers the synthesis model can emit as well: `typeof x === 'number'` holds
\* for them as it does for 62 (and for a fraction such as 62.5).
UncheckedValues == {0 - 1, 101}

SynthesisFailures == {"timeout", "error", "nontext", "nonjson"}

SybilReplies ==
    [kind : SynthesisFailures \cup {"jsonnull"}, coeffIsNumber : {FALSE}, coeff : {0},
     esc : {0}, color : {""}, scenarios : {EmittedScenarios(25)}]
    \cup {[kind |-> "object", coeffIsNumber |-> TRUE, coeff |-> k, esc |-> e,
           color |-> col, scenarios |-> EmittedScenarios(k)] :
             k \in CoeffValues, e \in EscalationValues, col \in Colors}
    \cup [kind : {"object"}, coeffIsNumber : {TRUE}, coeff : {62},
          esc : EscalationValues, color : {"", "purple"}, scenarios : {EmittedScenarios(0)}]
    \cup [kind : {"object"}, coeffIsNumber : {FALSE}, coeff : {0},
          esc : EscalationValues, color : {"green"}, scenarios : {EmittedScenarios(0)}]
    \cup {[kind |-> "object", coeffIsNumber |-> TRUE, coeff |-> k, esc |-> 100 - k,
           color |-> "yellow", scenarios |-> EmittedScenarios(k)] : k \in UncheckedValues}

\* extractJSON(text) for the reply of attempt n, when it parses
Parsed(reply, n) ==
    [src |-> IF reply.kind = "jsonnull" THEN "null" ELSE "model",
     coeffIsNumber |-> reply.coeffIsNumber, safetyCoefficient |-> reply.coeff,
     escalationRisk24h |-> reply.esc, psychoPassColor |-> reply.color,
     scenarios |-> reply.scenarios, madeOn |-> n]

\* A structural check that takes any non-empty colour.
StructurallyValidAnyColour(d) ==
    /\ d.src # "null"
    /\ d.coeffIsNumber
    /\ d.psychoPassColor # ""

\* The three structural checks; reading a field of null throws as well.
StructurallyValid(d) ==
    /\ d.src # "null"
    /\ d.coeffIsNumber
    /\ d.psychoPassColor # ""
    /\ d.psychoPassColor \in Colors

expectedColorShifted(coeff) ==
    IF coeff > 75 THEN "green"
    ELSE IF coeff > 50 THEN "yellow"
    ELSE IF coeff > 25 THEN "orange"
    ELSE "red"

expectedColor(coeff) ==
    IF coeff >= 75 THEN "green"
    ELSE IF coeff >= 50 THEN "yellow"
    ELSE IF coeff >= 25 THEN "orange"
    ELSE "red"

\* A post-processing step that leaves the emitted scenarios alone.
AutoCorrectKeepsScenarios(d) ==
    [d EXCEPT !.psychoPassColor = expectedColor(d.safetyCoefficient)]

\* A post-processing step that leaves the emitted colour alone.
AutoCorrectKeepsColour(d) ==
    [d EXCEPT !.scenarios = IF d.scenarios.isArray THEN d.scenarios
                            ELSE [isArray |-> TRUE, items |-> <<>>]]

\* Auto-correct the colour, then make sure scenarios is an array.
AutoCorrect(d) ==
    [d EXCEPT !.psychoPassColor = expectedColor(d.safetyCoefficient),
              !.scenarios = IF d.scenarios.isArray THEN d.scenarios
                            ELSE [isArray |-> TRUE, items |-> <<>>]]

----------------------------------------------------------------------------
(* fullMAGISybilAnalysis.                                                  *)
(*                                                                         *)
(* m is the record of the function's locals:                               *)
(*   pc   "cores"    awaiting Promise.all of the three pipelines           *)
(*        "synth"    awaiting the synthesis call of this attempt           *)
(*        "judge"    awaiting validateSybilOutput of this attempt          *)
(*        "returned" the function returned its MAGIResult                  *)
(*        "threw"    the returned promise rejected                         *)
(*   magiInputs : the core part of the synthesis transcript                *)

(*   sybilRef : the object the variable sybilData refers to: the module's  *)
(*        "FALLBACK_SYBIL", the object "parsed" last, or the "copy" made   *)
(*        of the fallback in the catch block                               *)
(*   request, fullQuery : the arguments and the prompt built from them     *)
(*   contextInputs : the transcript after the three core sections          *)
(*                                                                         *)
(* A request is the query with                                             *)
(*   location : "undefined", "empty" ('' after trimming) or "text"         *)
(*   env      : the sub-fields envContext holds; an absent envContext and  *)
(*              one without sub-fields read alike through `?.`             *)
(* A block of a prompt is identified by its wrapper (form) and the input   *)
(* it renders (field).                                                     *)

EnvFields == {"acled", "gdelt", "fires", "airQuality", "webcams"}

Requests == [location : {"undefined", "empty", "text"}, env : SUBSET EnvFields]

\* The request of the end-to-end scenario: no location, no envContext.
ScenarioRequest == [location |-> "undefined", env |-> {}]

PrefixBlock(field) == [form |-> "prefix", field |-> field]

QueryBlock == [form |-> "raw", field |-> "query"]

SectionBlock(field) == [form |-> "section", field |-> field]

\* if (x) parts.push(block)
PushIf(cond, block) == IF cond THEN <<block>> ELSE <<>>

\* An injector that puts the query in front of the context.
BuildFullQueryQueryFirst(req) ==
    <<QueryBlock>>
    \o PushIf(req.location = "text", PrefixBlock("location"))
    \o PushIf("fires" \in req.env, PrefixBlock("fires"))
    \o PushIf("airQuality" \in req.env, PrefixBlock("airQuality"))
    \o PushIf("webcams" \in req.env, PrefixBlock("webcams"))

\* parts, joined to fullQuery (v2.0)
BuildFullQuery(req) ==
    PushIf(req.location = "text", PrefixBlock("location"))
    \o PushIf("fires" \in req.env, PrefixBlock("fires"))
    \o PushIf("airQuality" \in req.env, PrefixBlock("airQuality"))
    \o PushIf("webcams" \in req.env, PrefixBlock("webcams"))
    \o <<QueryBlock>>

\* parts, joined to fullQuery, of the version with the two conflict tiers
BuildFullQueryTiered(req) ==
    PushIf(req.location = "text", PrefixBlock("location"))
    \o PushIf("acled" \in req.env, PrefixBlock("acled"))
    \o PushIf("gdelt" \in req.env, PrefixBlock("gdelt"))
    \o PushIf("fires" \in req.env, PrefixBlock("fires"))
    \o PushIf("airQuality" \in req.env, PrefixBlock("airQuality"))
    \o PushIf("webcams" \in req.env, PrefixBlock("webcams"))
    \o <<QueryBlock>>

\* The entries of magiInputs after the three core sections, '' filtered out.
ContextInputs(req) ==
    <<SectionBlock("query")>>
    \o PushIf(req.location = "text", SectionBlock("location"))
    \o PushIf("fires" \in req.env, SectionBlock("fires"))
    \o PushIf("airQuality" \in req.env, SectionBlock("airQuality"))

InitMain ==
    [pc |-> "cores", sybilAttempt |-> 0, sybilData |-> FALLBACK_SYBIL, errors |-> <<>>,
     magiInputs |-> <<>>, sybilRef |-> "FALLBACK_SYBIL",
     request |-> ScenarioRequest, fullQuery |-> BuildFullQuery(ScenarioRequest),
     contextInputs |-> <<>>]

\* fullMAGISybilAnalysis(query, location, envContext) up to its first await
Called(req) == [InitMain EXCEPT !.request = req, !.fullQuery = BuildFullQuery(req)]

RECURSIVE CollectFrom(_, _)
\* if (casperOut.error) errors.push(...) ; balthasar ; melchior
CollectFrom(outs, i) ==
    IF i > Len(CoreOrder) THEN <<>>
    ELSE (IF outs[CoreOrder[i]].error # NoError THEN <<outs[CoreOrder[i]].error>> ELSE <<>>)
         \o CollectFrom(outs, i + 1)

RECURSIVE CollectBackFrom(_, _)
CollectBackFrom(outs, i) ==
    IF i < 1 THEN <<>>
    ELSE (IF outs[CoreOrder[i]].error # NoError THEN <<outs[CoreOrder[i]].error>> ELSE <<>>)
         \o CollectBackFrom(outs, i - 1)

\* A collection that walks the pipelines last to first.
CollectErrorsReversed(outs) == CollectBackFrom(outs, Len(CoreOrder))

CollectErrors(outs) == CollectFrom(outs, 1)

\* sybilAttempt++ and the loop condition
NextSybilAttempt(m) ==
    IF m.sybilAttempt + 1 <= MAX_RETRIES
    THEN [m EXCEPT !.pc = "synth", !.sybilAttempt = m.sybilAttempt + 1]
    ELSE [m EXCEPT !.pc = "returned"]

\* A catch block that forgets to substitute the fallback.
SybilCatchKeepsData(m) ==
    IF m.sybilAttempt = MAX_RETRIES
    THEN [m EXCEPT !.errors = Append(m.errors, ErrorOf("SYBIL", "error", m.sybilAttempt + 1)),
                   !.pc = "returned"]
    ELSE NextSybilAttempt(m)

\* catch (err) of the synthesis loop
SybilCatch(m) ==
    IF m.sybilAttempt = MAX_RETRIES
    THEN [m EXCEPT !.errors = Append(m.errors, ErrorOf("SYBIL", "error", m.sybilAttempt + 1)),
                   !.sybilData = FALLBACK_SYBIL, !.sybilRef = "copy",
                   !.pc = "returned"]
    ELSE NextSybilAttempt(m)

\* A parse result kept apart from sybilData, which goes on referring to the
\* object it referred to.
ParsedIntoLocal(m, reply) ==
    [m EXCEPT !.sybilData = Parsed(reply, m.sybilAttempt + 1)]

\* sybilData = extractJSON(text): the variable refers to the parsed object
ParsedIntoSybilData(m, reply) ==
    [m EXCEPT !.sybilData = Parsed(reply, m.sybilAttempt + 1), !.sybilRef = "parsed"]

\* The synthesis call settled with `reply`: parse, structural check, auto-correct.
AfterSynthesis(m, reply) ==
    IF reply.kind \in SynthesisFailures
    THEN SybilCatch(m)
    ELSE LET m1 == ParsedIntoSybilData(m, reply) IN
         IF ~StructurallyValid(m1.sybilData)
         THEN SybilCatch(m1)
         ELSE [m1 EXCEPT !.sybilData = AutoCorrect(m1.sybilData), !.pc = "judge"]

\* The module-level object fb after the same step: the two writes of
\* auto-correction (sybilData.psychoPassColor = ..., sybilData.scenarios = [])
\* go to the object sybilData refers to when they run.
ModuleAfterSynthesis(fb, m, reply) ==
    IF reply.kind \in SynthesisFailures
    THEN fb
    ELSE LET m1 == ParsedIntoSybilData(m, reply) IN
         IF StructurallyValid(m1.sybilData) /\ m1.sybilRef = "FALLBACK_SYBIL"
         THEN [fb EXCEPT !.psychoPassColor = AutoCorrect(m1.sybilData).psychoPassColor,
                         !.scenarios = AutoCorrect(m1.sybilData).scenarios]
         ELSE fb

\* A loop without the break on acceptance.
AfterSybilValidationNoBreak(m, v) ==
    IF m.sybilAttempt = MAX_RETRIES
    THEN IF v.pass
         THEN [m EXCEPT !.pc = "returned"]
         ELSE [m EXCEPT !.errors = Append(m.errors,
                                          ErrorOf("SYBIL", "used_after", m.sybilAttempt + 1)),
                        !.pc = "returned"]
    ELSE NextSybilAttempt(m)

\* The loop as specified: the fallback is substituted when the last attempt
\* is rejected.
AfterSybilValidationFallback(m, v) ==
    IF v.pass
    THEN [m EXCEPT !.pc = "returned"]
    ELSE IF m.sybilAttempt = MAX_RETRIES
         THEN [m EXCEPT !.errors = Append(m.errors,
                                          ErrorOf("SYBIL", "used_after", m.sybilAttempt + 1)),
                        !.sybilData = FALLBACK_SYBIL,
                        !.pc = "returned"]
         ELSE NextSybilAttempt(m)

\* The synthesis judge settled with validation v.
AfterSybilValidation(m, v) ==
    IF v.pass
    THEN [m EXCEPT !.pc = "returned"]
    ELSE IF m.sybilAttempt = MAX_RETRIES
         THEN [m EXCEPT !.errors = Append(m.errors,
                                          ErrorOf("SYBIL", "used_after", m.sybilAttempt + 1)),
                        !.pc = "returned"]
         ELSE NextSybilAttempt(m)

----------------------------------------------------------------------------
(* State machine *)

GenerationFailures == {"timeout", "error"}

\* The frame of a call that is not in its synthesis loop.
Elsewhere == [InitMain EXCEPT !.pc = "elsewhere"]

Init ==
    /\ core = [c \in Cores |-> InitCore]
    /\ genCalls = [c \in Cores |-> 1]
    /\ generated = [c \in Cores |-> 0]
    /\ judgeCalls = [c \in Cores |-> 0]
    /\ validation = [c \in Cores |-> NoValidation]
    /\ main = InitMain
    /\ sybilCalls = 0
    /\ sybilJudgeCalls = 0
    /\ sybilValidation = NoValidation
    /\ calls = {AwaitedCall(c, "gen", 1) : c \in Cores}
    /\ fallbackSybil = FALLBACK_SYBIL
    /\ otherCall = Elsewhere

\* 1 when the pipeline, moving to t, starts another generateFn call.
StartsGeneration(t) == IF t.pc = "gen" THEN 1 ELSE 0

\* The judge calls of a running loop, which moves to t: one more when it
\* starts a judge call; the count is part of the frame and ends with it.
CountJudgeCalls(n, t) ==
    IF t.pc = "judge" THEN n + 1
    ELSE IF t.pc \in {"done", "returned", "threw"} THEN 0
    ELSE n

\* The call the pipeline of c awaits once it has moved to t.
CoreCalls(cs, c, t) ==
    IF t.pc \in {"gen", "judge"} THEN Issue(cs, c, t.pc, t.attempts) ELSE cs

\* The call the synthesis loop awaits once it has moved to t.
MainCalls(cs, t) ==
    IF t.pc \in {"synth", "judge"} THEN Issue(cs, "SYBIL", t.pc, t.sybilAttempt + 1) ELSE cs

\* What generateFn can resolve with on this attempt: an answer, or a text
\* with a leading '[' (the placeholder of an empty completion included).
GeneratedTexts(c) == {ModelText(c, core[c].attempts), BracketText(c, core[c].attempts)}

\* generateFn of pipeline c resolves with one of `texts`.
GenerationResolvesWith(c, texts) ==
    /\ core[c].pc = "gen"
    /\ \E text \in texts :
         LET t == AfterGeneration(core[c], c, text) IN
         /\ core' = [core EXCEPT ![c] = t]
         /\ judgeCalls' = [judgeCalls EXCEPT ![c] = CountJudgeCalls(@, t)]
         /\ calls' = CoreCalls(withTimeout(calls, c, "resolved"), c, t)
    /\ generated' = [generated EXCEPT ![c] = core[c].attempts]
    /\ UNCHANGED <<genCalls, validation, main, sybilCalls, sybilJudgeCalls, sybilValidation>>
    /\ UNCHANGED <<fallbackSybil, otherCall>>

GenerationResolves(c) == GenerationResolvesWith(c, GeneratedTexts(c))

\* generateFn of pipeline c rejects ("error"), or its 30 s deadline fires
\* first ("timeout").
GenerationFailsWith(c, whys) ==
    /\ core[c].pc = "gen"
    /\ \E why \in whys :
         LET t == AfterGenerationFailure(core[c], c) IN
         /\ core' = [core EXCEPT ![c] = t]
         /\ genCalls' = [genCalls EXCEPT ![c] = @ + StartsGeneration(t)]
         /\ judgeCalls' = [judgeCalls EXCEPT ![c] = CountJudgeCalls(@, t)]
         /\ calls' = CoreCalls(withTimeout(calls, c, why), c, t)
    /\ UNCHANGED <<generated, validation, main, sybilCalls, sybilJudgeCalls, sybilValidation>>
    /\ UNCHANGED <<fallbackSybil, otherCall>>

GenerationFails(c) == GenerationFailsWith(c, GenerationFailures)

\* How the race of a call ended that brought `reply`: lost to the timer, or won.
RaceOutcome(reply) == IF reply.kind = "timeout" THEN "timeout" ELSE "settled"

\* A settled judge call: the ValidationResult v it returned on `reply`, what
\* the run keeps of it, and how its race ended.
JudgeCall(v, reply) == [v |-> v, verdict |-> Verdict(v, reply), outcome |-> RaceOutcome(reply)]

\* The judge call of pipeline c settles with one of `replies` (a reply, a
\* failure or the 15 s deadline).  The verdict is block-scoped: it is gone
\* when the next attempt starts.
JudgeSettlesWith(c, replies) ==
    /\ core[c].pc = "judge"
    /\ \E settled \in {JudgeCall(validateCoreOutput(reply, core[c].attempts), reply) :
                          reply \in replies} :
         LET t == AfterValidation(core[c], c, settled.v) IN
         /\ core' = [core EXCEPT ![c] = t]
         /\ validation' = [validation EXCEPT
                             ![c] = IF t.pc = "gen" THEN NoValidation ELSE settled.verdict]
         /\ genCalls' = [genCalls EXCEPT ![c] = @ + StartsGeneration(t)]
         /\ judgeCalls' = [judgeCalls EXCEPT ![c] = CountJudgeCalls(@, t)]
         /\ calls' = CoreCalls(withTimeout(calls, c, settled.outcome), c, t)
    /\ UNCHANGED <<generated, main, sybilCalls, sybilJudgeCalls, sybilValidation>>
    /\ UNCHANGED <<fallbackSybil, otherCall>>

JudgeSettles(c) == JudgeSettlesWith(c, JudgeReplies)

\* Promise.all is fulfilled when every pipeline has returned.
PromiseAnyFulfilled == \E c \in Cores : core[c].pc = "done"

PromiseAllFulfilled == \A c \in Cores : core[c].pc = "done"

\* The core part of the synthesis transcript, in the order of the array.
MagiInputs(outs) ==
    [i \in 1..Len(CoreOrder) |->
       [core |-> CoreOrder[i],
        attempts |-> outs[CoreOrder[i]].attempts,
        text |-> outs[CoreOrder[i]].result]]

\* What stays of a pipeline's verdict once its frame is gone: whether its
\* last candidate was judged, and the verdict's pass.
Settled(v) == IF v.cause = "none" THEN v ELSE [pass |-> v.pass, cause |-> "settled"]

\* Promise.all settles: all three fulfilled, or one rejected.  The errors are
\* collected, the transcript is built and the first synthesis call is
\* started; the pipelines' frames are gone, their return values remain.
Join ==
    /\ main.pc = "cores"
    /\ \/ \E c \in Cores : core[c].pc = "threw"
       \/ PromiseAllFulfilled
    /\ IF \E c \in Cores : core[c].pc = "threw"
       THEN /\ main' = [main EXCEPT !.pc = "threw"]
            /\ UNCHANGED <<sybilCalls, calls>>
       ELSE LET outs == [c \in Cores |-> core[c].out]
                t == [main EXCEPT !.pc = "synth",
                                  !.errors = CollectErrors(outs),
                                  !.magiInputs = MagiInputs(outs),
                                  !.contextInputs = ContextInputs(main.request)] IN
            /\ main' = t
            /\ sybilCalls' = sybilCalls + 1
            /\ calls' = MainCalls(calls, t)
    /\ validation' = [c \in Cores |-> Settled(validation[c])]
    /\ UNCHANGED <<core, genCalls, generated, judgeCalls, sybilJudgeCalls, sybilValidation>>
    /\ UNCHANGED <<fallbackSybil, otherCall>>

\* 1 when the synthesis loop, moving to t, starts another synthesis call.
StartsSynthesis(t) == IF t.pc = "synth" THEN 1 ELSE 0

\* The synthesis call settles with one of `replies` (a reply, a failure or
\* the 30 s deadline).
SynthesisSettlesWith(replies) ==
    /\ main.pc = "synth"
    /\ \E settled \in {[t |-> AfterSynthesis(main, reply), outcome |-> RaceOutcome(reply),
                           module |-> ModuleAfterSynthesis(fallbackSybil, main, reply)] :
                          reply \in replies} :
         LET t == settled.t IN
         /\ main' = t
         /\ fallbackSybil' = settled.module
         /\ sybilCalls' = sybilCalls + StartsSynthesis(t)
         /\ sybilJudgeCalls' = CountJudgeCalls(sybilJudgeCalls, t)
         /\ calls' = MainCalls(withTimeout(calls, "SYBIL", settled.outcome), t)
    /\ UNCHANGED <<core, genCalls, generated, judgeCalls, validation, sybilValidation, otherCall>>

SynthesisSettles == SynthesisSettlesWith(SybilReplies)

\* The synthesis judge settles with one of `replies`.
SybilJudgeSettlesWith(replies) ==
    /\ main.pc = "judge"
    /\ \E settled \in {JudgeCall(validateSybilOutput(reply, main.sybilAttempt + 1), reply) :
                          reply \in replies} :
         LET t == AfterSybilValidation(main, settled.v) IN
         /\ main' = t
         /\ sybilValidation' = IF t.pc = "synth" THEN NoValidation ELSE settled.verdict
         /\ sybilCalls' = sybilCalls + StartsSynthesis(t)
         /\ sybilJudgeCalls' = CountJudgeCalls(sybilJudgeCalls, t)
         /\ calls' = MainCalls(withTimeout(calls, "SYBIL", settled.outcome), t)
    /\ UNCHANGED <<core, genCalls, generated, judgeCalls, validation>>
    /\ UNCHANGED <<fallbackSybil, otherCall>>

SybilJudgeSettles == SybilJudgeSettlesWith(JudgeReplies)

\* The underlying call of an abandoned call x completes (with a result or an
\* error): it leaves the network, and its settlement reaches nobody.
AbandonedCallSettles ==
    \E x \in Abandoned :
      /\ calls' = calls \ {x}
      /\ core' = [c \in Cores |-> IF c = x.who /\ x.earlier = 0
                                   THEN LateSettlement(core[c], x) ELSE core[c]]
      /\ main' = IF x.who = "SYBIL" /\ x.earlier = 0 THEN LateSettlement(main, x) ELSE main
      /\ UNCHANGED <<genCalls, generated, judgeCalls, validation, sybilCalls, sybilJudgeCalls,
                     sybilValidation, fallbackSybil, otherCall>>

\* Every call ends in every way, and a call abandoned on timeout completes at
\* any later time, or never: nothing waits for it.
Next ==
    \/ \E c \in Cores : GenerationResolves(c)
    \/ \E c \in Cores : GenerationFails(c)
    \/ \E c \in Cores : JudgeSettles(c)
    \/ Join
    \/ SynthesisSettles
    \/ SybilJudgeSettles
    \/ AbandonedCallSettles

Spec == Init /\ [][Next]_vars

\* A result assembled with one slot copied from its neighbour.
ResultSwapped ==
    [casper |-> core["CASPER"].out.result,
     balthasar |-> core["CASPER"].out.result,
     melchior |-> core["MELCHIOR"].out.result,
     sybil |-> main.sybilData,
     errors |-> main.errors]

\* The MAGIResult the function returns.
Result ==
    [casper |-> core["CASPER"].out.result,
     balthasar |-> core["BALTHASAR"].out.result,
     melchior |-> core["MELCHIOR"].out.result,
     sybil |-> main.sybilData,
     errors |-> main.errors]

----------------------------------------------------------------------------
(* Environments.  Spec lets every call end in every way.  Each of the      *)
(* specifications below fixes how some of the calls end; none of them      *)
(* orders the settlements of the calls in flight.                          *)

\* The judge's reply says pass: false.
RejectingReplies == {r \in JudgeReplies : r.kind = "object" /\ r.pass = "false"}

\* The synthesis model emits an object that passes the structural check.
ValidSybilReplies ==
    {r \in SybilReplies : r.kind = "object" /\ r.coeffIsNumber /\ r.color \in Colors}

\* SpecRejecting: every generation of CASPER yields an answer and its judge
\* rejects every one of them; every synthesis attempt yields a structurally
\* valid verdict and the synthesis judge rejects every one of them.  The
\* other two pipelines are unconstrained.
RejectedCore == "CASPER"

RejectedCoreGenerates ==
    GenerationResolvesWith(RejectedCore,
                           {ModelText(RejectedCore, core[RejectedCore].attempts)})

RejectedCoreJudged == JudgeSettlesWith(RejectedCore, RejectingReplies)

SynthesisEmitsVerdict == SynthesisSettlesWith(ValidSybilReplies)

SybilJudgeRejects == SybilJudgeSettlesWith(RejectingReplies)

NextRejecting ==
    \/ RejectedCoreGenerates
    \/ RejectedCoreJudged
    \/ \E c \in Cores \ {RejectedCore} : GenerationResolves(c)
    \/ \E c \in Cores \ {RejectedCore} : GenerationFails(c)
    \/ \E c \in Cores \ {RejectedCore} : JudgeSettles(c)
    \/ Join
    \/ SynthesisEmitsVerdict
    \/ SybilJudgeRejects
    \/ AbandonedCallSettles

SpecRejecting == Init /\ [][NextRejecting]_vars

\* Synthesis outputs that are no JSON object, or an object that fails one of
\* the structural checks.
MalformedReplies ==
    {r \in SybilReplies : r.kind \in {"nonjson", "jsonnull"}
                            \/ (r.kind = "object" /\ ~(r.coeffIsNumber /\ r.color \in Colors))}

SynthesisMalformed == SynthesisSettlesWith(MalformedReplies)

\* A synthesis attempt fails before the judge (call error, timeout, no text
\* block, non-JSON text, JSON null, failed structural check).
SynthesisFailsEarly == SynthesisSettlesWith(SybilReplies \ ValidSybilReplies)

\* SpecDeadlines: every call either completes in time with the outcome that
\* keeps its loop going (an answer, a rejection, a structurally valid
\* verdict), or never completes.  A pending setTimeout fires, and a settled
\* Promise.all resumes the function.
GenerationTimesOut(c) == GenerationFailsWith(c, {"timeout"})

JudgeTimesOut(c) == JudgeSettlesWith(c, {r \in JudgeReplies : r.kind = "timeout"})

SynthesisTimesOut == SynthesisSettlesWith({r \in SybilReplies : r.kind = "timeout"})

SybilJudgeTimesOut == SybilJudgeSettlesWith({r \in JudgeReplies : r.kind = "timeout"})

AnswerArrives(c) == GenerationResolvesWith(c, {ModelText(c, core[c].attempts)})

JudgeRejects(c) == JudgeSettlesWith(c, RejectingReplies)

\* The synthesis reply of the end-to-end scenario: coefficient 62, escalation
\* risk 40, colour 'orange'.
ScenarioReplies ==
    {r \in ValidSybilReplies : r.coeff = 62 /\ r.esc = 40 /\ r.color = "orange"}

SynthesisEmitsScenario == SynthesisSettlesWith(ScenarioReplies)

NextDeadlines ==
    \/ \E c \in Cores : AnswerArrives(c)
    \/ \E c \in Cores : GenerationTimesOut(c)
    \/ \E c \in Cores : JudgeRejects(c)
    \/ \E c \in Cores : JudgeTimesOut(c)
    \/ Join
    \/ SynthesisEmitsScenario
    \/ SynthesisTimesOut
    \/ SybilJudgeRejects
    \/ SybilJudgeTimesOut

SpecDeadlines ==
    /\ Init
    /\ [][NextDeadlines]_vars
    /\ \A c \in Cores : WF_vars(GenerationTimesOut(c))
    /\ \A c \in Cores : WF_vars(JudgeTimesOut(c))
    /\ WF_vars(Join)
    /\ WF_vars(SynthesisTimesOut)
    /\ WF_vars(SybilJudgeTimesOut)

\* SpecLingering: the calls of CASPER, of the synthesis and of the synthesis
\* judge complete in time (an answer, a rejection, the scenario's verdict) or
\* hit their deadline, and a call abandoned on timeout completes at any later
\* time, or never.  The other two pipelines get an answer and a pass.
SlowCore == "CASPER"

JudgeAccepts(c) ==
    JudgeSettlesWith(c, {r \in JudgeReplies : r.kind = "object" /\ r.pass = "true"})

NextLingering ==
    \/ \E c \in Cores : AnswerArrives(c)
    \/ GenerationTimesOut(SlowCore)
    \/ JudgeRejects(SlowCore)
    \/ JudgeTimesOut(SlowCore)
    \/ \E c \in Cores \ {SlowCore} : JudgeAccepts(c)
    \/ Join
    \/ SynthesisEmitsScenario
    \/ SynthesisTimesOut
    \/ SybilJudgeRejects
    \/ SybilJudgeTimesOut
    \/ AbandonedCallSettles

SpecLingering == Init /\ [][NextLingering]_vars

\* SpecOneSlow: the calls of CASPER end in every way; every generation of the
\* other two cores yields an answer or rejects before its deadline, and their
\* judge accepts every answer; the synthesis and the synthesis judge end in
\* every way.  A call abandoned on timeout completes at any later time, or
\* never.
PromptCores == Cores \ {SlowCore}

GenerationRejects(c) == GenerationFailsWith(c, {"error"})

OneSlowPipelines ==
    \/ GenerationResolves(SlowCore)
    \/ GenerationFails(SlowCore)
    \/ JudgeSettles(SlowCore)
    \/ \E c \in PromptCores : AnswerArrives(c)
    \/ \E c \in PromptCores : GenerationRejects(c)
    \/ \E c \in PromptCores : JudgeAccepts(c)

NextOneSlow ==
    \/ OneSlowPipelines
    \/ Join
    \/ SynthesisSettles
    \/ SybilJudgeSettles
    \/ AbandonedCallSettles

SpecOneSlow == Init /\ [][NextOneSlow]_vars

\* SpecSynthesisFailing: the pipelines run as in SpecOneSlow, and every
\* synthesis attempt fails before the judge.
NextSynthesisFailing ==
    \/ OneSlowPipelines
    \/ Join
    \/ SynthesisFailsEarly
    \/ AbandonedCallSettles

SpecSynthesisFailing == Init /\ [][NextSynthesisFailing]_vars

\* SpecPunctual: every call of the run ends in every way but one: it settles
\* before its deadline, so that no call is abandoned.
PunctualJudgeReplies == {r \in JudgeReplies : r.kind # "timeout"}

PunctualSybilReplies == {r \in SybilReplies : r.kind # "timeout"}

JudgeAnswers(c) == JudgeSettlesWith(c, PunctualJudgeReplies)

SynthesisAnswers == SynthesisSettlesWith(PunctualSybilReplies)

SybilJudgeAnswers == SybilJudgeSettlesWith(PunctualJudgeReplies)

NextPunctual ==
    \/ \E c \in Cores : GenerationResolves(c)
    \/ \E c \in Cores : GenerationRejects(c)
    \/ \E c \in Cores : JudgeAnswers(c)
    \/ Join
    \/ SynthesisAnswers
    \/ SybilJudgeAnswers

SpecPunctual == Init /\ [][NextPunctual]_vars

\* SpecDegraded: every generation call of every core fails (rejects or times
\* out) and every synthesis attempt fails before the judge.
NextDegraded ==
    \/ \E c \in Cores : GenerationFails(c)
    \/ Join
    \/ SynthesisFailsEarly
    \/ AbandonedCallSettles

SpecDegraded == Init /\ [][NextDegraded]_vars

\* SpecClean: every generation yields an answer, every judge call ends in a
\* pass (a truthy pass, or fail-open), every synthesis output parses and is
\* structurally valid.
PassingReplies == {r \in JudgeReplies : validateCoreOutput(r, 1).pass}

JudgePasses(c) == JudgeSettlesWith(c, PassingReplies)

SybilJudgePasses == SybilJudgeSettlesWith(PassingReplies)

NextClean ==
    \/ \E c \in Cores : AnswerArrives(c)
    \/ \E c \in Cores : JudgePasses(c)
    \/ Join
    \/ SynthesisEmitsVerdict
    \/ SybilJudgePasses
    \/ AbandonedCallSettles

SpecClean == Init /\ [][NextClean]_vars

\* SpecRequests: the calls end as in SpecClean; the request is any of Requests.
InitRequests ==
    /\ core = [c \in Cores |-> InitCore]
    /\ genCalls = [c \in Cores |-> 1]
    /\ generated = [c \in Cores |-> 0]
    /\ judgeCalls = [c \in Cores |-> 0]
    /\ validation = [c \in Cores |-> NoValidation]
    /\ \E req \in Requests : main = Called(req)
    /\ sybilCalls = 0
    /\ sybilJudgeCalls = 0
    /\ sybilValidation = NoValidation
    /\ calls = {AwaitedCall(c, "gen", 1) : c \in Cores}
    /\ fallbackSybil = FALLBACK_SYBIL
    /\ otherCall = Elsewhere

SpecRequests == InitRequests /\ [][NextClean]_vars

\* SpecShared: calls of fullMAGISybilAnalysis one after the other and side by
\* side.  The module is loaded once: FALLBACK_SYBIL outlives a call and is
\* shared by the calls under way.  The cores of the call followed in full
\* answer and are accepted; its synthesis and synthesis-judge calls end in
\* every way before their deadlines.
\* Of the call beside it the synthesis loop is followed, the only part of a
\* call that assigns or writes through sybilData.

\* let sybilData = FALLBACK_SYBIL: the variable refers to the module's object
StartOfCall == [InitMain EXCEPT !.sybilData = fallbackSybil]

\* The call has returned and the next request is served, whether or not the
\* calls abandoned so far have completed.
CalledAgain ==
    /\ main.pc = "returned"
    /\ core' = [c \in Cores |-> InitCore]
    /\ genCalls' = [c \in Cores |-> 1]
    /\ generated' = [c \in Cores |-> 0]
    /\ judgeCalls' = [c \in Cores |-> 0]
    /\ validation' = [c \in Cores |-> NoValidation]
    /\ main' = StartOfCall
    /\ sybilCalls' = 0
    /\ sybilJudgeCalls' = 0
    /\ sybilValidation' = NoValidation
    /\ calls' = LeftPending(calls) \cup {AwaitedCall(c, "gen", 1) : c \in Cores}
    /\ UNCHANGED <<fallbackSybil, otherCall>>

\* What the synthesis model answers to the call beside: the scenario's
\* verdict, a verdict whose colour is wrong and whose scenarios is no list, an
\* unknown colour, or nothing before the deadline.
OtherSybilReplies ==
    ScenarioReplies
    \cup {r \in SybilReplies : r.kind = "timeout"}
    \cup {r \in SybilReplies : r.kind = "object" /\ r.coeff = 62 /\ r.color = "purple"}
    \cup {r \in ValidSybilReplies : r.coeff = 25 /\ r.color = "green"}

\* The call beside enters its synthesis loop.
OtherCallSynthesizes ==
    /\ otherCall.pc \in {"elsewhere", "returned"}
    /\ otherCall' = [StartOfCall EXCEPT !.pc = "synth"]
    /\ UNCHANGED <<core, genCalls, generated, judgeCalls, validation, main, sybilCalls,
                   sybilJudgeCalls, sybilValidation, calls, fallbackSybil>>

\* Its synthesis call settles.
OtherSynthesisSettles ==
    /\ otherCall.pc = "synth"
    /\ \E reply \in OtherSybilReplies :
         /\ otherCall' = AfterSynthesis(otherCall, reply)
         /\ fallbackSybil' = ModuleAfterSynthesis(fallbackSybil, otherCall, reply)
    /\ UNCHANGED <<core, genCalls, generated, judgeCalls, validation, main, sybilCalls,
                   sybilJudgeCalls, sybilValidation, calls>>

\* Its synthesis-judge call settles.
OtherSybilJudgeSettles ==
    /\ otherCall.pc = "judge"
    /\ \E v \in {validateSybilOutput(reply, otherCall.sybilAttempt + 1) : reply \in JudgeReplies} :
         otherCall' = AfterSybilValidation(otherCall, v)
    /\ UNCHANGED <<core, genCalls, generated, judgeCalls, validation, main, sybilCalls,
                   sybilJudgeCalls, sybilValidation, calls, fallbackSybil>>

NextShared ==
    \/ \E c \in Cores : AnswerArrives(c)
    \/ \E c \in Cores : JudgeAccepts(c)
    \/ Join
    \/ SynthesisAnswers
    \/ SybilJudgeAnswers
    \/ CalledAgain
    \/ OtherCallSynthesizes
    \/ OtherSynthesisSettles
    \/ OtherSybilJudgeSettles

SpecShared == Init /\ [][NextShared]_vars

----------------------------------------------------------------------------
(* Properties *)

SybilEntries == SelectSeq(main.errors, LAMBDA e : e.who = "SYBIL")

EntriesOf(c) == SelectSeq(main.errors, LAMBDA e : e.who = c)

IsCoreText(t) == t.kind \in {"text", "bracket", "offline"} /\ t.core \in Cores

IsVerdict(d) ==
    /\ d.src \in {"model", "fallback"}
    /\ d.coeffIsNumber
    /\ d.psychoPassColor \in Colors
    /\ d.scenarios.isArray

\* C1: fullMAGISybilAnalysis never throws or rejects, whatever the outcomes of
\* the generation, judge and synthesis calls; neither does a pipeline; and the
\* result it returns holds three core texts, one verdict and a list of errors.
NeverFails ==
    /\ main.pc \in {"cores", "synth", "judge", "returned"}
    /\ \A c \in Cores : core[c].pc \in {"gen", "judge", "done"}
    /\ main.pc = "returned" =>
         /\ IsCoreText(Result.casper) /\ Result.casper.core = "CASPER"
         /\ IsCoreText(Result.balthasar) /\ Result.balthasar.core = "BALTHASAR"
         /\ IsCoreText(Result.melchior) /\ Result.melchior.core = "MELCHIOR"
         /\ IsVerdict(Result.sybil)
         /\ \A i \in 1..Len(Result.errors) :
              Result.errors[i].kind # "none" /\ Result.errors[i].n \in 1..(MAX_RETRIES + 1)

\* A run in which every core ended on a failed generation call and the
\* synthesis ended in the catch block has returned.
ReturnedFullyFailed ==
    /\ main.pc = "returned"
    /\ \A c \in Cores : core[c].out.error.kind = "failed"
    /\ Len(SybilEntries) = 1 /\ SybilEntries[1].kind = "error"

\* C2: under SpecRejecting (every generation of the core yields an answer, its
\* judge rejects every attempt) the pipeline makes exactly MAX_RETRIES + 1 = 3
\* generation calls and returns attempts = 3.
RetryCeiling ==
    /\ genCalls[RejectedCore] <= MAX_RETRIES + 1
    /\ core[RejectedCore].pc = "done" =>
         /\ genCalls[RejectedCore] = MAX_RETRIES + 1
         /\ core[RejectedCore].out.attempts = MAX_RETRIES + 1

RejectedCoreReturned ==
    /\ core[RejectedCore].pc = "done"
    /\ core[RejectedCore].out.error.kind = "used_after"

\* C3: a judge call that fails (transport error, timeout, unparsable reply)
\* accepts the candidate on that attempt: the pipeline returns the candidate
\* of this attempt with no error and without another generation call; the
\* synthesis returns the verdict of this attempt, starts no other synthesis
\* call and records no synthesis error.
FailOpenJudge ==
    /\ \A c \in Cores :
         validation[c].cause = "failed" =>
           /\ validation[c].pass
           /\ core[c].pc = "done"
           /\ core[c].out.error = NoError
           /\ core[c].out.result = ModelText(c, core[c].out.attempts)
           /\ genCalls[c] = core[c].out.attempts
    /\ sybilValidation.cause = "failed" =>
           /\ sybilValidation.pass
           /\ main.pc = "returned"
           /\ main.sybilData.src = "model"
           /\ sybilCalls = main.sybilAttempt + 1
           /\ SybilEntries = <<>>
    /\ \A c \in Cores :
         (main.pc # "cores" /\ core[c].out.error = NoError) => EntriesOf(c) = <<>>

JudgeFailedOnRetry ==
    \E c \in Cores :
      /\ validation[c].cause = "failed"
      /\ core[c].pc = "done"
      /\ core[c].out.attempts = 2

\* C4: under SpecRejecting (the synthesis judge rejects the structurally
\* valid verdict of each of the three attempts) the returned verdict is the
\* fixed fallback and one synthesis error is recorded.  The code does not do
\* this: see what it returns below.
SemanticExhaustionGivesFallback ==
    main.pc = "returned" =>
      /\ main.sybilData.safetyCoefficient = 50
      /\ main.sybilData.escalationRisk24h = 50
      /\ main.sybilData.psychoPassColor = "yellow"
      /\ main.sybilData.scenarios.items = <<>>
      /\ main.sybilData.src = "fallback"
      /\ Len(SybilEntries) = 1

\* What the code returns instead under SpecRejecting: the auto-corrected
\* verdict of the third attempt, which the judge rejected, with one synthesis
\* error as the last entry of the error list.
SemanticExhaustionKeepsLastVerdict ==
    main.pc = "returned" =>
      /\ main.sybilData.src = "model"
      /\ main.sybilData.madeOn = MAX_RETRIES + 1
      /\ IsVerdict(main.sybilData)
      /\ sybilCalls = MAX_RETRIES + 1
      /\ SybilEntries = <<ErrorOf("SYBIL", "used_after", MAX_RETRIES + 1)>>
      /\ main.errors[Len(main.errors)].who = "SYBIL"

RejectedVerdictReturned ==
    /\ main.pc = "returned"
    /\ main.sybilData.madeOn = 3
    /\ main.sybilData.safetyCoefficient = 24
    /\ Len(SybilEntries) = 1

\* C5: under SpecSynthesisFailing (every synthesis attempt fails before the
\* judge) the returned verdict equals the fallback field for field, and the
\* error list holds exactly one synthesis entry, which is added on the final
\* attempt: while an attempt is under way there is none.
FallbackSubstitution ==
    /\ main.pc = "returned" =>
         /\ main.sybilData.safetyCoefficient = 50
         /\ main.sybilData.escalationRisk24h = 50
         /\ main.sybilData.psychoPassColor = "yellow"
         /\ main.sybilData.scenarios = [isArray |-> TRUE, items |-> <<>>]
         /\ main.sybilData.src = "fallback"
         /\ main.sybilAttempt = MAX_RETRIES
         /\ SybilEntries = <<ErrorOf("SYBIL", "error", MAX_RETRIES + 1)>>
         /\ main.errors[Len(main.errors)].who = "SYBIL"
    /\ main.pc # "returned" => SybilEntries = <<>>

FallbackReturned ==
    /\ main.pc = "returned"
    /\ sybilCalls = 3
    /\ main.sybilData.src = "fallback"
    /\ Len(main.errors) = 1

\* C6: in every returned result the colour is the band of the coefficient:
\* green iff c >= 75, yellow iff 50 <= c < 75, orange iff 25 <= c < 50,
\* red iff c < 25.
ColourMatchesCoefficient ==
    main.pc = "returned" =>
      LET c == main.sybilData.safetyCoefficient
          col == main.sybilData.psychoPassColor IN
      /\ col = "green" <=> c >= 75
      /\ col = "yellow" <=> (50 <= c /\ c < 75)
      /\ col = "orange" <=> (25 <= c /\ c < 50)
      /\ col = "red" <=> c < 25

RejectedVerdictOnBoundary ==
    /\ main.pc = "returned"
    /\ main.sybilData.src = "model"
    /\ main.sybilData.safetyCoefficient = 75
    /\ sybilValidation.pass = FALSE

ResultText(c) ==
    CASE c = "CASPER" -> Result.casper
      [] c = "BALTHASAR" -> Result.balthasar
      [] c = "MELCHIOR" -> Result.melchior

ExhaustedRetries(c) ==
    core[c].out.attempts = MAX_RETRIES + 1 /\ core[c].out.error.kind \in {"used_after", "failed"}

AcceptedOnFirstAttempt(c) ==
    core[c].out.attempts = 1 /\ core[c].out.error = NoError

CoreEntries == SelectSeq(main.errors, LAMBDA e : e.who \in Cores)

\* C7: when core a exhausts its retries while the other two are accepted on
\* their first attempt, the result holds the first-attempt texts of the other
\* two and exactly one core error, which is a's; and a step of one pipeline
\* changes nothing of another pipeline.
Isolation ==
    /\ [](\A a \in Cores :
            (/\ main.pc = "returned"
             /\ ExhaustedRetries(a)
             /\ \A c \in Cores \ {a} : AcceptedOnFirstAttempt(c))
            => /\ \A c \in Cores \ {a} : ResultText(c) = ModelText(c, 1)
               /\ CoreEntries = <<core[a].out.error>>
               /\ core[a].out.error.who = a)
    /\ [][\A c \in Cores :
            core'[c] # core[c] =>
              \A d \in Cores \ {c} :
                /\ core'[d] = core[d]
                /\ genCalls'[d] = genCalls[d]
                /\ validation'[d] = validation[d]]_vars

OneExhaustedTwoClean ==
    /\ main.pc = "returned"
    /\ ExhaustedRetries("BALTHASAR")
    /\ AcceptedOnFirstAttempt("CASPER")
    /\ AcceptedOnFirstAttempt("MELCHIOR")

\* C8 as stated: a generation call that fails on the final attempt makes the
\* pipeline return the synthesized offline text, whatever happened before.
TerminalFailureGivesOfflineText ==
    \A c \in Cores :
      (core[c].pc = "done" /\ core[c].out.error.kind = "failed")
        => core[c].out.result = OfflineText(c, MAX_RETRIES + 1)

\* C8 amended: a generation call that fails on the final attempt makes the
\* pipeline return the error together with the text of its latest successful
\* generation when there is one (a text the judge rejected), and with the
\* synthesized offline text only when no generation of the run succeeded.
TerminalFailureKeepsLastOutput ==
    [][\A c \in Cores :
         (GenerationFails(c) /\ core[c].attempt = MAX_RETRIES)
           => /\ core'[c].pc = "done"
              /\ core'[c].out.attempts = MAX_RETRIES + 1
              /\ core'[c].out.error = ErrorOf(c, "failed", MAX_RETRIES + 1)
              /\ core'[c].out.result =
                   IF core[c].lastOutput = EmptyText
                   THEN OfflineText(c, MAX_RETRIES + 1)
                   ELSE core[c].lastOutput]_vars

TerminalFailureAfterRejection ==
    \E c \in Cores :
      /\ core[c].pc = "done"
      /\ core[c].out.error.kind = "failed"
      /\ core[c].out.result.kind = "text"

\* C9 as stated: a judge reply that parses but holds no boolean `pass`
\* (missing, null, a number, a string) yields a verdict with pass = true.
UnusablePassAccepts ==
    /\ \A c \in Cores : validation[c].cause = "unusable" => validation[c].pass
    /\ sybilValidation.cause = "unusable" => sybilValidation.pass

\* C10: a generation output with a leading '[' is never handed to the judge;
\* the pipeline returns it at once with the current attempt number and the
\* offline-marker error, and makes no further generation call.
OfflineMarkerEndsPipeline ==
    \A c \in Cores :
      /\ core[c].pc \in {"gen", "judge"} => ~StartsWithBracket(core[c].lastOutput)
      /\ (core[c].pc = "done" /\ core[c].out.result.kind = "bracket") =>
           /\ core[c].out.result = BracketText(c, core[c].out.attempts)
           /\ core[c].out.error = ErrorOf(c, "offline_marker", core[c].out.attempts)
           /\ genCalls[c] = core[c].out.attempts
           /\ validation[c] = NoValidation

OfflineMarkerOnFirstAttempt ==
    \E c \in Cores :
      /\ core[c].pc = "done"
      /\ core[c].out.error.kind = "offline_marker"
      /\ core[c].out.attempts = 1
      /\ main.pc = "cores"

----------------------------------------------------------------------------
(* Steps of a pipeline, as seen from the two states of a step *)

\* the pipeline of c returns in this step
Returns(c) == core[c].pc # "done" /\ core'[c].pc = "done"

\* a generation call fails on the final attempt
TerminalGenerationFailure(c) == GenerationFails(c) /\ core[c].attempt = MAX_RETRIES

\* the judge rejects the candidate of the final attempt
CeilingWhileRejecting(c) ==
    /\ core[c].pc = "judge"
    /\ core[c].attempt = MAX_RETRIES
    /\ validation'[c].cause # "none" /\ ~validation'[c].pass

\* a generation call resolves with a text that starts with '['
OfflineMarkerGenerated(c) ==
    GenerationResolvesWith(c, {BracketText(c, core[c].attempts)})

\* C11 as stated: a pipeline returns an error exactly when a generation call
\* failed on the final attempt or the judge rejected the candidate of the
\* final attempt, and in no other case.
ErrorOnlyOnFailureOrCeiling ==
    [][\A c \in Cores :
         Returns(c) =>
           (core'[c].out.error # NoError
              <=> (TerminalGenerationFailure(c) \/ CeilingWhileRejecting(c)))]_vars

\* C11 amended: a pipeline returns an error exactly when a generation call
\* failed on the final attempt, or the verdict on the candidate of the final
\* attempt was pass = false, or a generation (of any attempt) resolved with an
\* offline marker; in every other return the error is absent; and
\* attempts <= MAX_RETRIES + 1.
ErrorOnFailureCeilingOrOfflineMarker ==
    [][\A c \in Cores :
         Returns(c) =>
           /\ core'[c].out.attempts \in 1..(MAX_RETRIES + 1)
           /\ core'[c].out.error # NoError
                <=> \/ TerminalGenerationFailure(c)
                    \/ CeilingWhileRejecting(c)
                    \/ OfflineMarkerGenerated(c)]_vars

OfflineMarkerOnRetry ==
    \E c \in Cores :
      /\ core[c].pc = "done"
      /\ core[c].out.error = ErrorOf(c, "offline_marker", 2)
      /\ core[c].out.result = BracketText(c, 2)

Rank(who) ==
    CASE who = "CASPER" -> 1
      [] who = "BALTHASAR" -> 2
      [] who = "MELCHIOR" -> 3
      [] who = "SYBIL" -> 4

\* C12: the error list is an order-preserving sub-sequence of [CASPER error,
\* BALTHASAR error, MELCHIOR error, synthesis error]: at most one entry per
\* core and one for the synthesis, core entries in declaration order and equal
\* to the errors the pipelines returned, the synthesis entry last.
ErrorListShape ==
    /\ \A i \in 1..Len(main.errors) :
         /\ main.errors[i].who \in Callers
         /\ \A j \in (i + 1)..Len(main.errors) :
              Rank(main.errors[i].who) < Rank(main.errors[j].who)
    /\ main.pc # "cores" =>
         \A c \in Cores :
           EntriesOf(c) = IF core[c].out.error = NoError THEN <<>> ELSE <<core[c].out.error>>
    /\ main.pc # "returned" => SybilEntries = <<>>

AllFourEntries ==
    /\ main.pc = "returned"
    /\ Len(main.errors) = 4
    /\ core["CASPER"].out.attempts = 3
    /\ core["BALTHASAR"].out.attempts = 2
    /\ core["MELCHIOR"].out.attempts = 1

\* C13: no synthesis call is issued before all three pipelines have returned,
\* and the transcript of the synthesis holds the three returned core texts
\* (degraded or not) in the order CASPER, BALTHASAR, MELCHIOR.
JoinBarrier ==
    /\ (sybilCalls > 0 \/ CallsOf("SYBIL") # {} \/ main.pc # "cores") =>
         \A c \in Cores : core[c].pc = "done"
    /\ main.pc \in {"synth", "judge", "returned"} =>
         /\ Len(main.magiInputs) = 3
         /\ \A i \in 1..3 :
              /\ main.magiInputs[i].core = CoreOrder[i]
              /\ main.magiInputs[i].text = core[CoreOrder[i]].out.result
              /\ main.magiInputs[i].attempts = core[CoreOrder[i]].out.attempts
              /\ IsCoreText(main.magiInputs[i].text)
              /\ main.magiInputs[i].text.core = CoreOrder[i]
    /\ main.pc = "cores" => main.magiInputs = <<>>

SynthesisStartedOnDegradedCores ==
    /\ main.pc = "synth"
    /\ sybilCalls = 1
    /\ main.magiInputs[1].text = OfflineText("CASPER", 3)
    /\ main.magiInputs[2].text = BracketText("BALTHASAR", 2)
    /\ main.magiInputs[3].text = ModelText("MELCHIOR", 1)

AwaitedBy(who) == {x \in CallsOf(who) : ~x.abandoned}

AttemptsOf(c) == IF core[c].pc = "done" THEN core[c].out.attempts ELSE core[c].attempts

\* C14 as stated: for each perspective at most one generation or judge call is
\* in flight at any moment, a call abandoned on timeout counting as in flight
\* until the underlying call completes.
NoOverlappingCalls == \A c \in Cores : Cardinality(CallsOf(c)) <= 1

\* C14 amended: for each perspective at most one generation or judge call is
\* awaited at any moment, and it is the call of the pipeline's current
\* position; calls abandoned on timeout stay in flight next to it, at most one
\* per attempt made, so that at most MAX_RETRIES + 1 calls of a perspective
\* are in flight.
AwaitedCallsSequential ==
    \A c \in Cores :
      /\ AwaitedBy(c) =
           IF core[c].pc \in {"gen", "judge"}
           THEN {AwaitedCall(c, core[c].pc, core[c].attempts)}
           ELSE {}
      /\ \A x \in CallsOf(c) : x.n \in 1..AttemptsOf(c)
      /\ \A x, y \in CallsOf(c) : x.n = y.n => x = y
      /\ Cardinality(CallsOf(c)) <= MAX_RETRIES + 1

ThreeCallsInFlight ==
    /\ core[SlowCore].pc = "gen"
    /\ Cardinality(CallsOf(SlowCore)) = 3
    /\ Cardinality(AwaitedBy(SlowCore)) = 1

\* C15: when the underlying call of an abandoned generation, judge or
\* synthesis call completes, nothing of the run changes: no returned text or
\* verdict, no attempt count, no stored output or feedback, no error list, no
\* call count, and no call is issued.
AbandonedCallsDiscarded ==
    [][(\E x \in Abandoned : x \notin calls') =>
         /\ UNCHANGED <<core, genCalls, judgeCalls, validation, main, sybilCalls,
                        sybilJudgeCalls, sybilValidation>>
         /\ calls' \subseteq calls]_vars

\* Under SpecLingering generation calls fail by timeout only: the first two
\* generation calls were abandoned and both have completed since.
LateSettlementsDuringThirdAttempt ==
    /\ core[SlowCore].pc = "gen"
    /\ core[SlowCore].attempts = 3
    /\ core[SlowCore].lastOutput = EmptyText
    /\ CallsOf(SlowCore) = {AwaitedCall(SlowCore, "gen", 3)}

\* the judge passed the candidate the pipeline returned
CoreAccepted(c) == validation[c].cause # "none" /\ validation[c].pass

\* the synthesis judge passed the verdict the loop ended on
SynthesisAccepted == sybilValidation.cause # "none" /\ sybilValidation.pass

\* C16: the returned error list is empty if and only if the judge passed
\* (fail-open included) the returned candidate of each core and the returned
\* verdict; an offline, exhausted, failed or fallback outcome leaves an entry.
ErrorsIffDegraded ==
    main.pc = "returned" =>
      /\ main.errors = <<>> <=> ((\A c \in Cores : CoreAccepted(c)) /\ SynthesisAccepted)
      /\ \A c \in Cores : CoreAccepted(c) <=> EntriesOf(c) = <<>>
      /\ SynthesisAccepted <=> SybilEntries = <<>>
      /\ \A c \in Cores : StartsWithBracket(ResultText(c)) => EntriesOf(c) # <<>>
      /\ main.sybilData.src = "fallback" => SybilEntries # <<>>

NoErrorsAfterRetries ==
    /\ main.pc = "returned"
    /\ main.errors = <<>>
    /\ core["CASPER"].out.attempts = 3
    /\ validation["BALTHASAR"].cause = "settled"
    /\ main.sybilData.madeOn = 3
    /\ sybilValidation.cause = "failed"

\* C17: under SpecDegraded (every generation call fails on all three attempts,
\* every synthesis attempt fails) the result holds the offline text of each
\* core, the fixed fallback verdict, and one error entry per core followed by
\* one synthesis entry.
FullyDegradedRun ==
    /\ \A c \in Cores : genCalls[c] <= MAX_RETRIES + 1 /\ judgeCalls[c] = 0
    /\ main.pc = "returned" =>
         /\ \A c \in Cores :
              /\ ResultText(c) = OfflineText(c, MAX_RETRIES + 1)
              /\ StartsWithBracket(ResultText(c))
              /\ genCalls[c] = MAX_RETRIES + 1
         /\ Result.sybil = FALLBACK_SYBIL
         /\ Result.errors =
              <<ErrorOf("CASPER", "failed", MAX_RETRIES + 1),
                ErrorOf("BALTHASAR", "failed", MAX_RETRIES + 1),
                ErrorOf("MELCHIOR", "failed", MAX_RETRIES + 1),
                ErrorOf("SYBIL", "error", MAX_RETRIES + 1)>>

DegradedRunReturned ==
    /\ main.pc = "returned"
    /\ sybilCalls = 3
    /\ \A c \in Cores : core[c].out.result.kind = "offline"

\* C18: under SpecClean (first generation of each core answers and passes its
\* judge, first synthesis output is structurally valid and passes its judge)
\* each core makes exactly one generation call and one judge call, one
\* synthesis call is made, attempts = 1 for all three cores, the colour is
\* the band of the coefficient (62 gives 'yellow' whatever colour was
\* emitted), and errors = [].
CleanRun ==
    /\ [](/\ \A c \in Cores : genCalls[c] = 1 /\ judgeCalls[c] <= 1
          /\ sybilCalls <= 1
          /\ main.pc = "returned" =>
               /\ \A c \in Cores :
                    core[c].out.attempts = 1 /\ ResultText(c) = ModelText(c, 1)
               /\ sybilCalls = 1
               /\ main.sybilData.madeOn = 1
               /\ main.sybilData.psychoPassColor = expectedColor(main.sybilData.safetyCoefficient)
               /\ main.sybilData.safetyCoefficient = 62 => main.sybilData.psychoPassColor = "yellow"
               /\ main.errors = <<>>)
    /\ [][\A c \in Cores : Returns(c) => (genCalls[c] = 1 /\ judgeCalls[c] = 1)]_vars

ScenarioVerdictReturned ==
    /\ main.pc = "returned"
    /\ main.sybilData.safetyCoefficient = 62
    /\ main.sybilData.escalationRisk24h = 40
    /\ main.sybilData.psychoPassColor = "yellow"
    /\ main.errors = <<>>
    /\ \A c \in Cores : core[c].out.attempts = 1

\* C19 as stated: a verdict with pass = false of a judge call that did not
\* fail carries a non-empty feedback: the feedback a pipeline stores when its
\* candidate is rejected, for the next attempt, is never empty.
FeedbackOnRejection ==
    [][\A c \in Cores :
         (core[c].pc = "judge" /\ core'[c].pc = "gen")
           => core'[c].lastFeedback # NoFeedback]_vars

\* C20: under SpecDeadlines (every deadline timer fires; calls may never
\* complete) fullMAGISybilAnalysis eventually returns, and at every moment it
\* has issued at most 3 generation calls and 3 judge calls per core, and at
\* most 3 synthesis calls and 3 synthesis-judge calls.
Termination ==
    /\ <>(main.pc = "returned")
    /\ [](/\ \A c \in Cores : genCalls[c] <= 3
          /\ \A c \in Cores : judgeCalls[c] <= 3
          /\ sybilCalls <= 3
          /\ sybilJudgeCalls <= 3)

\* Every call of the run hit its deadline and none has completed since.
ReturnedThoughNoCallCompleted ==
    /\ main.pc = "returned"
    /\ Cardinality(Abandoned) = 12
    /\ \A c \in Cores : Cardinality(CallsOf(c)) = 3

\* C21 as stated: in every verdict fullMAGISybilAnalysis returns,
\* safetyCoefficient and escalationRisk24h lie within 0..100, whatever numbers
\* the synthesis model emitted.
CoefficientRange ==
    main.pc = "returned" =>
      /\ main.sybilData.safetyCoefficient \in 0..100
      /\ main.sybilData.escalationRisk24h \in 0..100

\* C22 as stated: the first generation of a core carries no feedback; after
\* the judge rejects attempt n < 3, the generation of attempt n + 1 carries the
\* feedback sentence of that rejection as an added instruction; a failed
\* generation call leaves the stored feedback unchanged, so the next attempt
\* is generated with the feedback of the most recent rejection, if any.
FeedbackThreading ==
    /\ [](\A c \in Cores :
            (core[c].pc = "gen" /\ core[c].attempts = 1)
              => CoreMessages(RetryFeedback(core[c])) = BaseMessages)
    /\ [][\A c \in Cores :
            (core[c].pc = "judge" /\ core'[c].pc = "gen")
              => CoreMessages(RetryFeedback(core'[c]))
                   = Append(BaseMessages, RejectionNotice(core[c].attempts))]_vars
    /\ [][\A c \in Cores :
            (core[c].pc = "gen" /\ core'[c].pc = "gen" /\ core'[c].attempts # core[c].attempts)
              => /\ core'[c].lastFeedback = core[c].lastFeedback
                 /\ RetryFeedback(core'[c]).feedback = core[c].lastFeedback]_vars

\* C23: a synthesis output that is not one JSON object, whose
\* safetyCoefficient is not a number, or whose colour is missing or not one of
\* the four labels is rejected without a judge call; before the final attempt
\* another synthesis call follows, on the final attempt the fallback is
\* returned; the object parsed in a failed attempt is never returned: a
\* returned verdict is the fallback or the judged verdict of the last attempt.
MalformedSynthesisRejected ==
    /\ [][SynthesisMalformed =>
            /\ main'.pc # "judge"
            /\ \A x \in calls' : ~(x.who = "SYBIL" /\ x.kind = "judge" /\ ~x.abandoned)
            /\ sybilValidation' = NoValidation
            /\ IF main.sybilAttempt < MAX_RETRIES
               THEN /\ main'.pc = "synth"
                    /\ main'.sybilAttempt = main.sybilAttempt + 1
                    /\ sybilCalls' = sybilCalls + 1
                    /\ main'.errors = main.errors
               ELSE /\ main'.pc = "returned"
                    /\ main'.sybilData = FALLBACK_SYBIL
                    /\ sybilCalls' = sybilCalls]_vars
    /\ [](main.pc = "judge" => StructurallyValid(main.sybilData))
    /\ [](main.pc = "returned" =>
            \/ main.sybilData = FALLBACK_SYBIL
            \/ /\ StructurallyValid(main.sybilData)
               /\ main.sybilData.madeOn = main.sybilAttempt + 1
               /\ sybilValidation.cause # "none")

\* The final synthesis call is awaited while sybilData holds the object of the
\* second attempt, which failed the colour check.
MalformedObjectHeldOnFinalAttempt ==
    /\ main.pc = "synth"
    /\ main.sybilAttempt = MAX_RETRIES
    /\ main.sybilData.madeOn = MAX_RETRIES
    /\ main.sybilData.psychoPassColor = "purple"

\* the verdict of the running attempt, with colour and scenarios corrected
Corrected(m) ==
    /\ m.sybilData.madeOn = m.sybilAttempt + 1
    /\ m.sybilData.psychoPassColor = expectedColor(m.sybilData.safetyCoefficient)
    /\ m.sybilData.scenarios.isArray

\* C24: in every synthesis attempt that passes the structural check, on the
\* first and on later attempts, the colour is recomputed from the coefficient
\* and scenarios is coerced to a list before the synthesis judge is called;
\* every returned verdict has a list-valued scenarios field.
AutoCorrectionPrecedesValidation ==
    /\ [][(main.pc = "synth" /\ main'.pc = "judge") =>
            /\ Corrected(main')
            /\ main'.sybilAttempt = main.sybilAttempt
            /\ AwaitedCall("SYBIL", "judge", main.sybilAttempt + 1) \in calls'
            /\ AwaitedCall("SYBIL", "judge", main.sybilAttempt + 1) \notin calls]_vars
    /\ [](main.pc = "judge" => Corrected(main))
    /\ [](main.pc = "returned" => main.sybilData.scenarios.isArray)

\* The judge is called on the third attempt: the model had emitted 25 without
\* a list of scenarios.
CoercedVerdictJudgedOnFinalAttempt ==
    /\ main.pc = "judge"
    /\ main.sybilAttempt = MAX_RETRIES
    /\ main.sybilData.src = "model"
    /\ main.sybilData.safetyCoefficient = 25
    /\ main.sybilData.psychoPassColor = "orange"
    /\ main.sybilData.scenarios = [isArray |-> TRUE, items |-> <<>>]

\* C25: once the synthesis judge passes attempt n, no further synthesis call
\* or synthesis-judge call is made, no synthesis error is recorded and the
\* returned verdict is the auto-corrected verdict of attempt n; once a core's
\* judge passes attempt n, no further generation or judge call is made for
\* that core, and its result carries the text of attempt n, attempts = n and
\* no error.
StopOnAcceptance ==
    /\ [][SybilJudgePasses =>
            /\ main'.pc = "returned"
            /\ main'.sybilData = main.sybilData
            /\ main'.errors = main.errors
            /\ sybilCalls' = sybilCalls
            /\ \A x \in calls' : x.who = "SYBIL" => x.abandoned]_vars
    /\ [][main.pc = "returned" =>
            /\ main' = main
            /\ sybilCalls' = sybilCalls /\ sybilJudgeCalls' = sybilJudgeCalls
            /\ calls' \subseteq calls]_vars
    /\ [](main.pc = "returned" /\ SynthesisAccepted =>
            /\ Corrected(main)
            /\ sybilCalls = main.sybilAttempt + 1
            /\ SybilEntries = <<>>)
    /\ [][\A c \in Cores :
            (core[c].pc = "judge" /\ validation'[c].cause # "none" /\ validation'[c].pass) =>
              /\ core'[c].pc = "done"
              /\ core'[c].out = [result |-> core[c].lastOutput,
                                 attempts |-> core[c].attempts, error |-> NoError]
              /\ genCalls'[c] = genCalls[c]
              /\ \A x \in calls' : x.who = c => x.abandoned]_vars
    /\ [][\A c \in Cores :
            core[c].pc = "done" =>
              /\ core'[c] = core[c]
              /\ genCalls'[c] = genCalls[c] /\ judgeCalls'[c] = judgeCalls[c]
              /\ \A x \in calls' : x.who = c => x \in calls]_vars
    /\ [](\A c \in Cores :
            (core[c].pc = "done" /\ CoreAccepted(c)) =>
              /\ core[c].out.result = ModelText(c, core[c].out.attempts)
              /\ genCalls[c] = core[c].out.attempts
              /\ core[c].out.error = NoError)

\* The synthesis and MELCHIOR were both accepted on their second attempt.
AcceptedOnSecondAttempt ==
    /\ main.pc = "returned"
    /\ SynthesisAccepted
    /\ main.sybilAttempt = 1 /\ sybilCalls = 2
    /\ CoreAccepted("MELCHIOR")
    /\ core["MELCHIOR"].out.attempts = 2 /\ genCalls["MELCHIOR"] = 2

\* The one order of the blocks: location, the two conflict tiers, the three
\* environmental sub-fields, the query.
InjectorRank(field) ==
    CASE field = "location" -> 1
      [] field = "acled" -> 2
      [] field = "gdelt" -> 3
      [] field = "fires" -> 4
      [] field = "airQuality" -> 5
      [] field = "webcams" -> 6
      [] field = "query" -> 7

\* the inputs a request holds
Present(req) == (IF req.location = "text" THEN {"location"} ELSE {}) \cup req.env

\* the inputs the v2.0 injector reads
InjectedFields == {"location", "fires", "airQuality", "webcams"}

\* q is one prefix block per input of `inputs`, in the fixed order, then the query
OrderedPrompt(q, inputs) ==
    /\ Len(q) = Cardinality(inputs) + 1
    /\ q[Len(q)] = QueryBlock
    /\ \A f \in inputs : \E i \in 1..(Len(q) - 1) : q[i] = PrefixBlock(f)
    /\ \A i \in 1..(Len(q) - 1) : q[i].form = "prefix" /\ q[i].field \in inputs
    /\ \A i, j \in 1..Len(q) : i < j => InjectorRank(q[i].field) < InjectorRank(q[j].field)
    /\ "location" \in inputs => q[1] = PrefixBlock("location")

\* q without the blocks of the inputs that `req` lacks
Without(q, req) ==
    SelectSeq(q, LAMBDA b : b.field \in Present(req) \cup {"query"})

\* C26: for every subset of present inputs (location and each environmental
\* sub-field) the prompt given to the cores is one prefix block per present
\* input in one fixed relative order, location first, followed by the raw
\* query as the last block; an absent input contributes no block and leaves
\* the relative order of the others as it is.
ContextInjectorOrdering ==
    /\ main.fullQuery = BuildFullQuery(main.request)
    /\ OrderedPrompt(main.fullQuery, Present(main.request) \cap InjectedFields)
    /\ OrderedPrompt(BuildFullQueryTiered(main.request), Present(main.request))
    /\ \A req \in Requests :
         Present(req) \subseteq Present(main.request) =>
           /\ BuildFullQuery(req) = Without(main.fullQuery, req)
           /\ BuildFullQueryTiered(req) = Without(BuildFullQueryTiered(main.request), req)

\* The synthesis is under way for a request with a location and webcams, but
\* neither fires nor air quality.
PromptWithLocationAndWebcams ==
    /\ main.pc = "synth"
    /\ main.request = [location |-> "text", env |-> {"webcams"}]
    /\ main.fullQuery = <<PrefixBlock("location"), PrefixBlock("webcams"), QueryBlock>>

\* C27: in every result of generateAndValidateCore, attempts lies in 1..3 and
\* equals the number of generation calls the pipeline started, on every path:
\* accepted, offline marker, exhausted, terminal generation failure.
AttemptsCountGenerationCalls ==
    \A c \in Cores :
      /\ core[c].pc \in {"gen", "judge"} => core[c].attempts = genCalls[c]
      /\ core[c].pc = "done" =>
           /\ core[c].out.attempts \in 1..(MAX_RETRIES + 1)
           /\ core[c].out.attempts = genCalls[c]
           /\ core[c].out.error.kind \in {"none", "offline_marker", "used_after", "failed"}
           /\ core[c].out.error.kind # "none" => core[c].out.error.n = genCalls[c]

\* Three of the paths at once: exhausted after three generations, offline
\* marker on the second, terminal failure of the third.
ThreePathsReturned ==
    /\ core["CASPER"].out.error.kind = "used_after" /\ genCalls["CASPER"] = 3
    /\ core["BALTHASAR"].out.error.kind = "offline_marker" /\ genCalls["BALTHASAR"] = 2
    /\ core["MELCHIOR"].out.error.kind = "failed" /\ genCalls["MELCHIOR"] = 3
    /\ main.pc = "cores"

\* the texts generateFn can have resolved with on attempt n
OutputsOf(c, n) == {ModelText(c, n), BracketText(c, n)}

\* C28: the text returned for a core is the output of that core's most recent
\* generation call of this run that resolved, or an offline-marker text when
\* no generation call of this run resolved; it is never empty and never the
\* output of an earlier attempt than the latest resolved one.
ProvenanceOfCoreText ==
    \A c \in Cores :
      /\ core[c].pc \in {"gen", "judge"} =>
           IF generated[c] = 0
           THEN core[c].lastOutput = EmptyText
           ELSE core[c].lastOutput \in OutputsOf(c, generated[c])
      /\ core[c].pc = "done" =>
           /\ core[c].out.result # EmptyText
           /\ IF generated[c] = 0
              THEN /\ core[c].out.result = OfflineText(c, core[c].out.attempts)
                   /\ StartsWithBracket(core[c].out.result)
              ELSE core[c].out.result \in OutputsOf(c, generated[c])
      /\ main.pc = "returned" => ResultText(c) = core[c].out.result

\* The third generation call failed after the second had resolved: the text
\* of the second attempt is returned.
SecondAttemptTextReturned ==
    \E c \in Cores :
      /\ core[c].pc = "done"
      /\ genCalls[c] = 3 /\ generated[c] = 2
      /\ core[c].out.result = ModelText(c, 2)
      /\ core[c].out.error.kind = "failed"

\* the variable sybilData of frame m and the object it refers to
RefersAsExpected(m) ==
    /\ m.sybilRef = "FALLBACK_SYBIL" => m.sybilData = fallbackSybil
    /\ m.pc = "judge" =>
         m.sybilRef = "parsed" /\ m.sybilData.madeOn = m.sybilAttempt + 1
    /\ (m.pc = "returned" /\ m.sybilRef # "parsed") =>
         /\ m.sybilRef = "copy"
         /\ m.sybilData = fallbackSybil
         /\ m.sybilData.safetyCoefficient = 50
         /\ m.sybilData.psychoPassColor = "yellow"
         /\ m.sybilData.scenarios = [isArray |-> TRUE, items |-> <<>>]

\* C29: across calls of fullMAGISybilAnalysis one after the other and side by
\* side, the writes of auto-correction (colour, scenarios) only ever go to the
\* object parsed in the current attempt, never to the module-level
\* FALLBACK_SYBIL that sybilData refers to at first, so every fallback verdict
\* returned has coefficient 50, colour yellow and no scenarios.
FallbackNeverModified ==
    /\ fallbackSybil = FALLBACK_SYBIL
    /\ RefersAsExpected(main)
    /\ RefersAsExpected(otherCall)

\* A fallback verdict is returned after the call beside had its verdict
\* corrected (25, emitted as green without scenarios) on its second attempt.
FallbackReturnedBesideCorrectedVerdict ==
    /\ main.pc = "returned"
    /\ main.sybilRef = "copy"
    /\ otherCall.pc = "returned"
    /\ otherCall.sybilRef = "parsed"
    /\ otherCall.sybilData.madeOn = 2
    /\ otherCall.sybilData.safetyCoefficient = 25
    /\ otherCall.sybilData.psychoPassColor = "orange"
    /\ otherCall.sybilData.scenarios.isArray

\* the inputs rendered into a sequence of blocks
Rendered(blocks) == {blocks[i].field : i \in 1..Len(blocks)}

\* C30 as stated: every environmental sub-field (fires, air quality, webcams)
\* rendered into the prompt sent to the three cores is also rendered into the
\* transcript sent to the synthesis model and its judge.
EnvironmentReachesSynthesis ==
    main.pc \in {"synth", "judge", "returned"} =>
      \A f \in {"fires", "airQuality", "webcams"} :
        f \in Rendered(main.fullQuery) => f \in Rendered(main.contextInputs)

====
